---- MODULE Spec2Model ----
(***************************************************************************)
(* Monitoring engine of UptimeMonitor: the per-target timer registry and   *)
(* checkService / handleStatusChange of MonitoringService, the services,   *)
(* service_checks and incidents tables they read and write, the admin      *)
(* routes that create, edit, delete and manually check a service, and the  *)
(* notifier calls made on a status change.                                 *)
(*                                                                         *)
(* better-sqlite3 is synchronous and Node runs one callback at a time, so  *)
(* the code between two awaits is one atomic step.  checkService awaits    *)
(* the probe (HealthChecker.checkService), then runs from                  *)
(* ServiceCheckModel.create up to the call of the notifier without         *)
(* yielding, then awaits the notifier.                                     *)
(***************************************************************************)
EXTENDS Integers, Sequences, FiniteSets, TLC

\* ------------------------------------------------------------------ bounds
MaxServices == 1       \* rows ever inserted into services
MaxTasks == 2          \* executions of checkService in flight at once
MaxChecks == 2         \* executions of checkService that reach the store
MaxClockSteps == 1     \* advances of the wall clock
MaxRecipients == 3     \* alert recipients read by getRecipients
MaxFaults == 1         \* Store operations that throw
MaxMinutes == 14       \* minutes a cron job is watched
MaxTimers == MaxServices + 1   \* cron jobs alive at once

\* ------------------------------------------------------------- constants
NULL == -1             \* SQL NULL in an INTEGER / DATETIME column
MsPerSec == 1000       \* Math.floor((resolvedAt - startedAt) / 1000)
\* new Date() has millisecond resolution: the server starts part-way through
\* a second, and two readings are no or one second apart
ClockOrigin == MsPerSec \div 2
ClockStep == MsPerSec
Elapsed == {0, ClockStep}

CreateIntervals == {60}     \* check_interval given to POST /admin/services
UpdateIntervals == {300}    \* check_interval given to PUT /admin/services/:id
Absent == 0            \* a key that is missing from the request body

ProbeResults ==
  { [status |-> "operational", error_message |-> ""],
    [status |-> "degraded",    error_message |-> ""],
    [status |-> "down",        error_message |-> "Request timeout"] }

VARIABLES
  now,          \* wall clock as last read by new Date(), milliseconds
  services,     \* table services: id -> row
  checks,       \* table service_checks: set of rows
  incidents,    \* table incidents: set of rows
  rowid,        \* sqlite_sequence: last AUTOINCREMENT id of each table
  cronJobs,     \* MonitoringService.cronJobs: service id -> timer handle
  timers,       \* the cron.ScheduledTask objects still running, by handle
  tasks,        \* the executions of checkService that are awaiting
  notifier,     \* NotificationService: isConfigured (a transport exists)
  alerts,       \* per incident id: what was asked of the notifier
  aborted,      \* service ids whose tick ended on a deleted service
  failed,       \* the ticks that threw in the Store: target, rowid at the throw
  call,         \* a function called on its own: its arguments, then its result
  phase         \* "init" before app.listen, "running", "stopped" after exit

vars == <<now, services, checks, incidents, rowid, cronJobs, timers, tasks,
          notifier, alerts, aborted, failed, call, phase>>

\* the state of the monitoring engine
engine == <<now, services, checks, incidents, rowid, cronJobs, timers, tasks,
            notifier, alerts, aborted, failed, phase>>

\* --------------------------------------------------------------- helpers
Idle == [pc |-> "idle"]

InFlight(t) == tasks[t].pc \in {"probe", "sendDown", "sendRecovered"}

LiveTimers == DOMAIN timers

OpenIncidents(incs, sid) ==
  {i \in incs : i.service_id = sid /\ i.resolved_at = NULL}

\* SQLite CURRENT_TIMESTAMP: 'YYYY-MM-DD HH:MM:SS', whole seconds
CurrentTimestamp(t) == (t \div MsPerSec) * MsPerSec

\* ------------------------------------------------ models/Service.ts (Store)
\* ServiceModel.create: INSERT INTO services ... ; status as given
ServiceModelCreate(svcs, id, interval) ==
  [i \in DOMAIN svcs \cup {id} |->
     IF i = id THEN [id |-> id, check_interval |-> interval, status |-> "unknown"]
     ELSE svcs[i]]

\* ServiceModel.update: UPDATE services SET <the keys of updates>
ServiceModelUpdate(svcs, id, interval) ==
  IF interval = Absent THEN svcs
  ELSE [svcs EXCEPT ![id].check_interval = interval]

\* the UPDATE of updateStatus matches no row
UpdateStatusLost(svcs, id, status) == svcs

\* ServiceModel.updateStatus: UPDATE services SET status = ?
UpdateStatus(svcs, id, status) == [svcs EXCEPT ![id].status = status]

\* the fields of a Service object that scheduleService reads
Config(row) == [k \in DOMAIN row \ {"status"} |-> row[k]]

\* ServiceModel.getAll: SELECT * FROM services ORDER BY created_at DESC
RECURSIVE GetAllFrom(_, _)
GetAllFrom(svcs, ids) ==
  IF ids = {} THEN <<>>
  ELSE LET m == CHOOSE i \in ids : \A j \in ids : j <= i
       IN <<Config(svcs[m])>> \o GetAllFrom(svcs, ids \ {m})

GetAll(svcs) == GetAllFrom(svcs, DOMAIN svcs)

\* check.error_message || null, incident.error_message || null
ErrorMessageOrNull(msg) == IF msg = "" THEN "NULL" ELSE msg

\* ServiceCheckModel.create: INSERT INTO service_checks
ServiceCheckModelCreate(chks, id, sid, r) ==
  chks \cup {[id |-> id, service_id |-> sid, status |-> r.status,
              error_message |-> ErrorMessageOrNull(r.error_message)]}

\* the INSERT of IncidentModel.create without the error_message column
IncidentModelCreateNoMessage(incs, id, sid, started_at, msg) ==
  incs \cup {[id |-> id, service_id |-> sid, started_at |-> started_at,
              resolved_at |-> NULL, duration |-> NULL,
              error_message |-> "NULL", notification_sent |-> FALSE]}

\* IncidentModel.create: INSERT INTO incidents (service_id, started_at,
\* error_message, notification_sent); resolved_at and duration stay NULL
IncidentModelCreate(incs, id, sid, started_at, msg) ==
  incs \cup {[id |-> id, service_id |-> sid, started_at |-> started_at,
              resolved_at |-> NULL, duration |-> NULL,
              error_message |-> ErrorMessageOrNull(msg),
              notification_sent |-> FALSE]}

\* IncidentModel.getActiveByServiceId: WHERE service_id = ? AND resolved_at
\* IS NULL ORDER BY started_at DESC LIMIT 1; the rows SQLite may return
GetActiveByServiceId(incs, sid) ==
  {i \in OpenIncidents(incs, sid) :
     \A j \in OpenIncidents(incs, sid) : j.started_at <= i.started_at}

\* IncidentModel.resolve: duration from the JavaScript clock in ms,
\* resolved_at = CURRENT_TIMESTAMP
IncidentModelResolve(incs, id, t) ==
  {IF i.id = id
   THEN [i EXCEPT !.resolved_at = CurrentTimestamp(t),
                  !.duration = (t - i.started_at) \div MsPerSec]
   ELSE i : i \in incs}

\* IncidentModel.markNotificationSent: UPDATE incidents SET
\* notification_sent = 1 WHERE id = ?
MarkNotificationSent(incs, id) ==
  {IF i.id = id THEN [i EXCEPT !.notification_sent = TRUE] ELSE i : i \in incs}

\* ServiceModel.delete with FOREIGN KEY ... ON DELETE CASCADE on
\* service_checks and incidents
ServiceModelDelete(id) ==
  [services |-> [i \in DOMAIN services \ {id} |-> services[i]],
   checks |-> {c \in checks : c.service_id # id},
   incidents |-> {i \in incidents : i.service_id # id}]

\* foreign_keys left off: every INSERT is accepted
ForeignKeyOff(svcs, sid) == TRUE

\* foreign_keys = ON: an INSERT whose service_id has no services row fails
ForeignKeyOk(svcs, sid) == sid \in DOMAIN svcs

\* ------------------------------------ notificationService (Notifier)
\* NotificationService.sendEmail with n recipients of which k fail:
\* returns without sending when there is no recipient, throws when all fail
SendEmail(n, k) ==
  IF n = 0 THEN [threw |-> FALSE, delivered |-> 0]
  ELSE [threw |-> (k = n), delivered |-> n - k]

\* the loop of sendEmail left at the first recipient that fails
RECURSIVE SendEachUntilFailure(_, _, _)
SendEachUntilFailure(fails, i, acc) ==
  IF i > Len(fails) THEN acc
  ELSE IF fails[i]
  THEN [attempted |-> Append(acc.attempted, i), errors |-> Append(acc.errors, i)]
  ELSE SendEachUntilFailure(fails, i + 1,
                            [attempted |-> Append(acc.attempted, i),
                             errors |-> acc.errors])

\* the loop of sendEmail from recipient i on: for (const recipient of
\* recipients) try { send } catch { errors.push }; fails[i] says that the
\* send to recipient i throws
RECURSIVE SendEach(_, _, _)
SendEach(fails, i, acc) ==
  IF i > Len(fails) THEN acc
  ELSE SendEach(fails, i + 1,
                [attempted |-> Append(acc.attempted, i),
                 errors |-> IF fails[i] THEN Append(acc.errors, i) ELSE acc.errors])

\* NotificationService.sendEmail over its list of recipients, recipient by
\* recipient; throws when errors.length === recipients.length
SendEmailTo(fails) ==
  IF Len(fails) = 0 THEN [threw |-> FALSE, attempted |-> <<>>, errors |-> <<>>]
  ELSE LET a == SendEach(fails, 1, [attempted |-> <<>>, errors |-> <<>>])
       IN [threw |-> Len(a.errors) = Len(fails),
           attempted |-> a.attempted, errors |-> a.errors]

\* sendServiceDownAlert / sendServiceRecoveredAlert, recipient by recipient
SendServiceAlertTo(cfg, fails) ==
  IF ~cfg.isConfigured THEN [threw |-> FALSE, attempted |-> <<>>, errors |-> <<>>]
  ELSE SendEmailTo(fails)

\* NotificationService.sendServiceDownAlert / sendServiceRecoveredAlert:
\* return without sending when no transport is configured; otherwise
\* sendEmail to the n recipients getRecipients returns, k of which fail
SendServiceAlert(cfg, n, k) ==
  IF ~cfg.isConfigured THEN [threw |-> FALSE, delivered |-> 0]
  ELSE SendEmail(n, k)

\* --------------------------------------------- MonitoringService
\* currentService?.status || 'unknown'
PreviousStatus(svcs, service) ==
  IF service.id \in DOMAIN svcs THEN svcs[service.id].status ELSE "unknown"

\* the down branch taken on every tick that reports down
WentDownIgnoringPrevious(previousStatus, newStatus) == newStatus = "down"

\* the down branch taken on every tick that is not operational
WentDownOrDegraded(previousStatus, newStatus) ==
  previousStatus # "down" /\ newStatus # "operational"

\* handleStatusChange: previousStatus !== 'down' && newStatus === 'down'
WentDown(previousStatus, newStatus) ==
  previousStatus # "down" /\ newStatus = "down"

\* the recovery branch taken only on a tick that reports operational
RecoveredOnlyOperational(previousStatus, newStatus) ==
  previousStatus = "down" /\ newStatus = "operational"

\* handleStatusChange: previousStatus === 'down' && newStatus !== 'down'
Recovered(previousStatus, newStatus) ==
  previousStatus = "down" /\ newStatus # "down"

\* MonitoringService.unscheduleService: job.stop(); cronJobs.delete(id)
UnscheduleService(jobs, tms, sid) ==
  IF sid \in DOMAIN jobs
  THEN [cronJobs |-> [i \in DOMAIN jobs \ {sid} |-> jobs[i]],
        timers |-> [h \in DOMAIN tms \ {jobs[sid]} |-> tms[h]]]
  ELSE [cronJobs |-> jobs, timers |-> tms]

\* a handle no running task has
NewHandle(tms) == CHOOSE h \in 1..MaxTimers \ DOMAIN tms :
                    \A g \in 1..MaxTimers \ DOMAIN tms : h <= g

\* scheduleService without the call of unscheduleService
ScheduleServiceKeepOld(jobs, tms, service) ==
  LET h == NewHandle(tms)
  IN [cronJobs |-> [i \in DOMAIN jobs \cup {service.id} |->
                      IF i = service.id THEN h ELSE jobs[i]],
      timers |-> [g \in DOMAIN tms \cup {h} |->
                    IF g = h THEN [service |-> service] ELSE tms[g]]]

\* MonitoringService.scheduleService: unschedule, cron.schedule with the
\* service object captured by the callback, cronJobs.set
ScheduleService(jobs, tms, service) ==
  LET u == UnscheduleService(jobs, tms, service.id)
      h == NewHandle(u.timers)
  IN [cronJobs |-> [i \in DOMAIN u.cronJobs \cup {service.id} |->
                      IF i = service.id THEN h ELSE u.cronJobs[i]],
      timers |-> [g \in DOMAIN u.timers \cup {h} |->
                    IF g = h THEN [service |-> service] ELSE u.timers[g]]]

\* the pending promises of the event loop carry no order of their own:
\* the awaiting executions are listed by await point, target and incident
PcRank(pc) ==
  CASE pc = "probe" -> 1 [] pc = "sendDown" -> 2 [] pc = "sendRecovered" -> 3
    [] OTHER -> 4

TaskBefore(a, b) ==
  IF PcRank(a.pc) # PcRank(b.pc) THEN PcRank(a.pc) < PcRank(b.pc)
  ELSE IF a.pc = "idle" THEN FALSE
  ELSE IF a.service.id # b.service.id THEN a.service.id < b.service.id
  ELSE a.incident < b.incident

Pending(tsks) == SortSeq(tsks, TaskBefore)

FreeSlots(tsks) == {t \in 1..MaxTasks : tsks[t] = Idle}

\* what a probe reads of the service object it is given: everything but the
\* check interval
ProbeConfig(service) ==
  [k \in DOMAIN service \ {"check_interval"} |-> service[k]]

\* checkService up to its first await (the probe); of the Service object it
\* was given, the Store is keyed with service.id
CheckServiceStart(tsks, service) ==
  LET t == CHOOSE f \in FreeSlots(tsks) : \A g \in FreeSlots(tsks) : f <= g
  IN Pending([tsks EXCEPT ![t] = [pc |-> "probe",
                                  service |-> ProbeConfig(service),
                                  incident |-> 0]])

\* startMonitoring awaiting each initial check before the next service, as
\* the loop of checkAllServicesNow does
RECURSIVE ScheduleAll(_, _)
ScheduleAll(order, st) ==
  IF order = <<>> THEN st
  ELSE LET sch == ScheduleService(st.cronJobs, st.timers, Head(order))
       IN ScheduleAll(Tail(order), [cronJobs |-> sch.cronJobs,
                                    timers |-> sch.timers, tasks |-> st.tasks])

StartAllAwaiting(order, st) ==
  IF order = <<>> THEN st
  ELSE LET sch == ScheduleAll(order, st)
       IN [cronJobs |-> sch.cronJobs, timers |-> sch.timers,
           tasks |-> CheckServiceStart(st.tasks, Head(order))]

\* startMonitoring: for each service, scheduleService then the initial check
RECURSIVE StartAll(_, _)
StartAll(order, st) ==
  IF order = <<>> THEN st
  ELSE LET sch == ScheduleService(st.cronJobs, st.timers, Head(order))
       IN StartAll(Tail(order),
                   [cronJobs |-> sch.cronJobs, timers |-> sch.timers,
                    tasks |-> CheckServiceStart(st.tasks, Head(order))])

\* process.exit: every checkService still awaiting is gone
KillInFlight(tsks) == [t \in 1..MaxTasks |-> Idle]

\* room for n more executions of checkService
CanStart(n) ==
  /\ Cardinality(FreeSlots(tasks)) >= n
  /\ rowid.service_checks + (MaxTasks - Cardinality(FreeSlots(tasks))) + n <= MaxChecks

\* IncidentModel.getByServiceId(serviceId, 1)[0]: ORDER BY started_at DESC
\* LIMIT 1; the rows SQLite may return
MostRecentByServiceId(incs, sid) ==
  {i \in incs : /\ i.service_id = sid
                /\ \A j \in incs : j.service_id = sid => j.started_at <= i.started_at}

\* ------------------------------------------------------------------ Init
\* seed.ts inserts its sample services with status 'unknown'
SeededServices(n) ==
  [i \in 1..n |-> [id |-> i, check_interval |-> 60, status |-> "unknown"]]

\* index.ts builds the transport from the environment, or none
NotifierConfigs == {[isConfigured |-> c] : c \in BOOLEAN}

\* the state of a new process over a database that holds the services svcs
InitEngine(svcs) ==
  /\ now = ClockOrigin
  /\ services = svcs
  /\ checks = {}
  /\ incidents = {}
  /\ cronJobs = <<>>
  /\ timers = <<>>
  /\ tasks = [t \in 1..MaxTasks |-> Idle]
  /\ notifier \in NotifierConfigs
  /\ alerts = <<>>
  /\ aborted = {}
  /\ failed = <<>>
  /\ phase = "init"

\* the state of a new process over a database of n seeded services
InitSeeded(n) ==
  /\ InitEngine(SeededServices(n))
  /\ rowid = [services |-> n, service_checks |-> 0, incidents |-> 0]

NoCall == [op |-> "none"]

Init == call = NoCall /\ \E n \in 0..MaxServices : InitSeeded(n)

\* --------------------------------------------------------------- actions
\* new Date() in handleStatusChange and IncidentModel.resolve: d ms after
\* the reading before it
ReadClock(d) ==
  /\ now + d <= ClockOrigin + MaxClockSteps * ClockStep
  /\ now' = now + d

\* app.listen callback: monitoringService.startMonitoring()
StartMonitoring ==
  /\ phase \in {"init", "stopped"}
  /\ CanStart(Cardinality(DOMAIN services))
  /\ Cardinality(DOMAIN timers) + Cardinality(DOMAIN services) <= MaxTimers
  /\ LET st == StartAll(GetAll(services),
                        [cronJobs |-> cronJobs, timers |-> timers, tasks |-> tasks])
     IN /\ cronJobs' = st.cronJobs
        /\ timers' = st.timers
        /\ tasks' = st.tasks
  /\ phase' = "running"
  /\ UNCHANGED <<now, services, checks, incidents, rowid, notifier, alerts, aborted, failed, call>>

\* SIGTERM / SIGINT: stopMonitoring() stops every registered job and clears
\* the registry, then process.exit(0) ends every timer and pending promise
StopMonitoring ==
  /\ phase = "running"
  /\ timers' = <<>>
  /\ cronJobs' = <<>>
  /\ tasks' = KillInFlight(tasks)
  /\ phase' = "stopped"
  /\ UNCHANGED <<now, services, checks, incidents, rowid, notifier, alerts, aborted, failed, call>>

\* POST /admin/services: create, scheduleService, initial checkService
AdminCreate(interval) ==
  /\ phase = "running"
  /\ rowid.services < MaxServices
  /\ CanStart(1)
  /\ Cardinality(DOMAIN timers) < MaxTimers
  /\ LET id == rowid.services + 1
         service == [id |-> id, check_interval |-> interval]
         sch == ScheduleService(cronJobs, timers, service)
     IN /\ services' = ServiceModelCreate(services, id, interval)
        /\ rowid' = [rowid EXCEPT !.services = id]
        /\ cronJobs' = sch.cronJobs
        /\ timers' = sch.timers
        /\ tasks' = CheckServiceStart(tasks, service)
  /\ UNCHANGED <<now, checks, incidents, notifier, alerts, aborted, failed, call, phase>>

\* PUT /admin/services/:id: update, reschedule if (updates.check_interval)
AdminUpdate(id, interval) ==
  /\ phase = "running"
  /\ id \in DOMAIN services
  /\ services' = ServiceModelUpdate(services, id, interval)
  /\ IF interval # Absent /\ interval # 0
     THEN /\ Cardinality(DOMAIN timers) < MaxTimers
          /\ LET sch == ScheduleService(cronJobs, timers, Config(services'[id]))
             IN /\ cronJobs' = sch.cronJobs
                /\ timers' = sch.timers
     ELSE UNCHANGED <<cronJobs, timers>>
  /\ UNCHANGED <<now, checks, incidents, rowid, tasks, notifier, alerts,
                 aborted, failed, call, phase>>

\* DELETE /admin/services/:id: unscheduleService, ServiceModel.delete
AdminDelete(id) ==
  /\ phase = "running"
  /\ id \in DOMAIN services
  /\ LET u == UnscheduleService(cronJobs, timers, id)
         d == ServiceModelDelete(id)
     IN /\ cronJobs' = u.cronJobs
        /\ timers' = u.timers
        /\ services' = d.services
        /\ checks' = d.checks
        /\ incidents' = d.incidents
  /\ UNCHANGED <<now, rowid, tasks, notifier, alerts, aborted, failed, call, phase>>

\* POST /admin/services/:id/check: checkService(ServiceModel.getById(id))
AdminCheckNow(id) ==
  /\ phase = "running"
  /\ id \in DOMAIN services
  /\ CanStart(1)
  /\ tasks' = CheckServiceStart(tasks, Config(services[id]))
  /\ UNCHANGED <<now, services, checks, incidents, rowid, cronJobs, timers,
                 notifier, alerts, aborted, failed, call, phase>>

\* the cron callback of timer h fires: checkService(service) with the
\* service object scheduleService was given
CronTick(h) ==
  /\ phase = "running"
  /\ h \in LiveTimers
  /\ CanStart(1)
  /\ tasks' = CheckServiceStart(tasks, timers[h].service)
  /\ UNCHANGED <<now, services, checks, incidents, rowid, cronJobs, timers,
                 notifier, alerts, aborted, failed, call, phase>>

\* handleStatusChange from its entry to its first await.  The two branches
\* exclude each other, so the recovery test after the down branch is FALSE.
HandleStatusChange(t, sid, previousStatus, newStatus, errorMessage) ==
  IF sid \notin DOMAIN services'
  THEN /\ tasks' = Pending([tasks EXCEPT ![t] = Idle])
       /\ rowid' = [rowid EXCEPT !.service_checks = @ + 1]
       /\ UNCHANGED <<incidents, alerts>>
  ELSE IF WentDown(previousStatus, newStatus)
  THEN LET id == rowid.incidents + 1
       IN /\ incidents' = IncidentModelCreate(incidents, id, sid, now', errorMessage)
          /\ rowid' = [rowid EXCEPT !.incidents = id, !.service_checks = @ + 1]
          /\ alerts' = Append(alerts, [down |-> "pending", downCalls |-> 1,
                                       recovered |-> "none", recCalls |-> 0])
          /\ tasks' = Pending([tasks EXCEPT ![t].pc = "sendDown",
                                             ![t].incident = id])
  ELSE IF Recovered(previousStatus, newStatus)
          /\ GetActiveByServiceId(incidents, sid) # {}
  THEN \E activeIncident \in GetActiveByServiceId(incidents, sid) :
         /\ incidents' = IncidentModelResolve(incidents, activeIncident.id, now')
         /\ \E resolvedIncident \in MostRecentByServiceId(incidents', sid) :
              /\ alerts' = [alerts EXCEPT ![resolvedIncident.id].recovered = "pending",
                                          ![resolvedIncident.id].recCalls = @ + 1]
              /\ tasks' = Pending([tasks EXCEPT ![t].pc = "sendRecovered",
                                                 ![t].incident = resolvedIncident.id])
         /\ rowid' = [rowid EXCEPT !.service_checks = @ + 1]
  ELSE /\ tasks' = Pending([tasks EXCEPT ![t] = Idle])
       /\ rowid' = [rowid EXCEPT !.service_checks = @ + 1]
       /\ UNCHANGED <<incidents, alerts>>

\* checkService after the probe returned r: ServiceCheckModel.create,
\* getById, updateStatus, handleStatusChange up to the notifier call
ProbeDone(t, r, d) ==
  /\ tasks[t].pc = "probe"
  /\ ReadClock(d)
  /\ LET sid == tasks[t].service.id
     IN IF ~ForeignKeyOk(services, sid)
        THEN /\ tasks' = Pending([tasks EXCEPT ![t] = Idle])
             /\ aborted' = aborted \cup {sid}
             /\ UNCHANGED <<services, checks, incidents, rowid, alerts>>
        ELSE /\ checks' = ServiceCheckModelCreate(checks, rowid.service_checks + 1,
                                                  sid, r)
             /\ services' = UpdateStatus(services, sid, r.status)
             /\ HandleStatusChange(t, sid, PreviousStatus(services, tasks[t].service),
                                   r.status, r.error_message)
             /\ UNCHANGED aborted
  /\ UNCHANGED <<cronJobs, timers, notifier, failed, call, phase>>

AlertOutcome(out) ==
  IF out.threw THEN "failed" ELSE IF out.delivered > 0 THEN "sent" ELSE "skipped"

\* getRecipients reads the alert_emails setting, which the admin edits at
\* any time, or the EMAIL_TO list: n recipients, of which the transport
\* fails k; without a transport neither is read
Deliveries(n, k) ==
  /\ k <= n
  /\ ~notifier.isConfigured => n = 0

\* try { await sendServiceDownAlert; markNotificationSent } catch { log }
AfterSendDown(incs, id, out) ==
  IF out.threw THEN incs ELSE MarkNotificationSent(incs, id)

\* handleStatusChange after await sendServiceDownAlert: markNotificationSent
\* unless the alert threw
SendDownDone(t, n, k) ==
  /\ tasks[t].pc = "sendDown"
  /\ Deliveries(n, k)
  /\ LET out == SendServiceAlert(notifier, n, k)
         id == tasks[t].incident
     IN /\ incidents' = AfterSendDown(incidents, id, out)
        /\ alerts' = [alerts EXCEPT ![id].down = AlertOutcome(out)]
  /\ aborted' = IF tasks[t].service.id \in DOMAIN services THEN aborted
                ELSE aborted \cup {tasks[t].service.id}
  /\ tasks' = Pending([tasks EXCEPT ![t] = Idle])
  /\ UNCHANGED <<now, services, checks, rowid, cronJobs, timers, notifier,
                 failed, call, phase>>

\* handleStatusChange after await sendServiceRecoveredAlert: whether the
\* alert was sent, skipped or threw, nothing follows but the log line
SendRecoveredDone(t) ==
  /\ tasks[t].pc = "sendRecovered"
  /\ alerts' = [alerts EXCEPT ![tasks[t].incident].recovered = "settled"]
  /\ aborted' = IF tasks[t].service.id \in DOMAIN services THEN aborted
                ELSE aborted \cup {tasks[t].service.id}
  /\ tasks' = Pending([tasks EXCEPT ![t] = Idle])
  /\ UNCHANGED <<now, services, checks, incidents, rowid, cronJobs, timers,
                 notifier, failed, call, phase>>

\* the Store operations of checkService whose exception leaves checkService:
\* ServiceCheckModel.create; getById / updateStatus; the Store calls of
\* handleStatusChange outside its try blocks
StoreFaults == {"recordCheck", "updateStatus", "handleStatusChange"}

\* what checkService has written when Store operation f throws: better-sqlite3
\* runs each statement on its own, nothing is rolled back
WrittenBefore(f, sid, r) ==
  [checks |-> IF f = "recordCheck" THEN checks
              ELSE ServiceCheckModelCreate(checks, rowid.service_checks + 1, sid, r),
   rowid |-> IF f = "recordCheck" THEN rowid
             ELSE [rowid EXCEPT !.service_checks = @ + 1],
   services |-> IF f = "handleStatusChange" THEN UpdateStatus(services, sid, r.status)
                ELSE services]

\* the rejection of checkService stops the job of the target
AbandonTickStopsJob(jobs, tms, sid) == UnscheduleService(jobs, tms, sid)

\* the rejection of checkService reaches the cron callback (or the .catch of
\* startMonitoring, or the catch of the check route): the registry and the
\* running jobs are not touched
AbandonTick(jobs, tms, sid) == [cronJobs |-> jobs, timers |-> tms]

\* checkService after the probe returned r, when Store operation f throws
StoreFailure(t, r, f) ==
  /\ tasks[t].pc = "probe"
  /\ ForeignKeyOk(services, tasks[t].service.id)
  /\ Len(failed) < MaxFaults
  /\ LET sid == tasks[t].service.id
         w == WrittenBefore(f, sid, r)
         a == AbandonTick(cronJobs, timers, sid)
     IN /\ checks' = w.checks
        /\ rowid' = w.rowid
        /\ services' = w.services
        /\ cronJobs' = a.cronJobs
        /\ timers' = a.timers
        /\ failed' = Append(failed, [service_id |-> sid,
                                     at |-> w.rowid.service_checks])
  /\ tasks' = Pending([tasks EXCEPT ![t] = Idle])
  /\ UNCHANGED <<now, incidents, notifier, alerts, aborted, call, phase>>

Next ==
  \/ StartMonitoring
  \/ StopMonitoring
  \/ \E interval \in CreateIntervals : AdminCreate(interval)
  \/ \E id \in 1..MaxServices, interval \in UpdateIntervals \cup {Absent} :
       AdminUpdate(id, interval)
  \/ \E id \in 1..MaxServices : AdminDelete(id)
  \/ \E id \in 1..MaxServices : AdminCheckNow(id)
  \/ \E h \in 1..MaxTimers : CronTick(h)
  \/ \E t \in 1..MaxTasks, r \in ProbeResults, d \in Elapsed : ProbeDone(t, r, d)
  \/ \E t \in 1..MaxTasks, n \in 0..MaxRecipients, k \in 0..MaxRecipients :
       SendDownDone(t, n, k)
  \/ \E t \in 1..MaxTasks : SendRecoveredDone(t)

Spec == Init /\ [][Next]_vars

\* the scheduler and the ticks of the engine with a Store that may throw
NextStoreFaults ==
  \/ StartMonitoring
  \/ \E id \in 1..MaxServices : AdminCheckNow(id)
  \/ \E h \in 1..MaxTimers : CronTick(h)
  \/ \E t \in 1..MaxTasks, r \in ProbeResults, d \in Elapsed : ProbeDone(t, r, d)
  \/ \E t \in 1..MaxTasks, n \in 0..MaxRecipients, k \in 0..MaxRecipients :
       SendDownDone(t, n, k)
  \/ \E t \in 1..MaxTasks : SendRecoveredDone(t)
  \/ \E t \in 1..MaxTasks, r \in ProbeResults, f \in StoreFaults : StoreFailure(t, r, f)

SpecStoreFaults == Init /\ [][NextStoreFaults]_vars

\* ------------------------------------------- the Notifier on its own
BoolSeqs(n) == UNION {[1..m -> BOOLEAN] : m \in 0..n}

\* the incident handleStatusChange has just created when it calls the alert
OpenedIncident == IncidentModelCreate({}, 1, 1, ClockOrigin, "Request timeout")

InitNotifier ==
  /\ InitSeeded(0)
  /\ call \in [op : {"sendServiceDownAlert", "sendServiceRecoveredAlert"},
                fails : BoolSeqs(MaxRecipients), done : {FALSE}]

\* handleStatusChange awaits the alert for the incident and goes on
AlertCall ==
  /\ call.op \in {"sendServiceDownAlert", "sendServiceRecoveredAlert"}
  /\ ~call.done
  /\ LET out == SendServiceAlertTo(notifier, call.fails)
     IN call' = [op |-> call.op, fails |-> call.fails, done |-> TRUE, out |-> out,
                 incidents |-> IF call.op = "sendServiceDownAlert"
                               THEN AfterSendDown(OpenedIncident, 1, out)
                               ELSE OpenedIncident]
  /\ UNCHANGED engine

SpecNotifier == InitNotifier /\ [][AlertCall]_vars

\* ------------------------------------------------ a cron job on its own
SecPerMin == 60
MinPerHour == 60

\* check_interval values of a service, in seconds
CronIntervals == {30, 45, 60, 90, 120, 300, 420, 900, 3600, 7200}

\* scheduleService: the cron expression for check_interval; every
\* expression it builds is '*/step * * * *', '* * * * *' being step 1
CronExpression(intervalSeconds) ==
  IF intervalSeconds < SecPerMin THEN [step |-> 1]
  ELSE IF intervalSeconds = SecPerMin THEN [step |-> 1]
  ELSE IF intervalSeconds % SecPerMin = 0
  THEN LET minutes == intervalSeconds \div SecPerMin
       IN IF minutes < MinPerHour THEN [step |-> minutes] ELSE [step |-> 1]
  ELSE [step |-> 1]

\* node-cron: the minute field '*/step' matches the minutes of the hour
\* that are multiples of step
Matches(expression, minute) == (minute % MinPerHour) % expression.step = 0

InitCron ==
  /\ InitSeeded(0)
  /\ call \in [op : {"schedule"}, check_interval : CronIntervals,
                minute : {0}, fired : {NULL}, gap : {NULL}]

\* the wall clock reaches the next minute: the job runs its callback when
\* its expression matches
CronMinute ==
  /\ call.op = "schedule"
  /\ call.minute < MaxMinutes
  /\ LET m == call.minute + 1
     IN call' = IF Matches(CronExpression(call.check_interval), m)
                THEN [call EXCEPT !.minute = m, !.fired = m,
                                  !.gap = IF call.fired = NULL THEN NULL
                                          ELSE (m - call.fired) * SecPerMin]
                ELSE [call EXCEPT !.minute = m]
  /\ UNCHANGED engine

SpecCron == InitCron /\ [][CronMinute]_vars

\* ------------------------------------- the admin routes on their own
\* values a request body gives to check_interval and to timeout
FieldValues == {-5, 0, 10, 29, 30, 60, 300}

\* request bodies: each of the two keys present or not
ServiceBodies ==
  UNION {[keys -> FieldValues] : keys \in SUBSET {"check_interval", "timeout"}}

\* const { ..., check_interval = 900, timeout = 30, ... } = req.body
DefaultCheckInterval == 900
DefaultTimeout == 30

\* POST /admin/services: the row ServiceModel.create inserts; neither the
\* route nor the table checks the two values
PostService(body) ==
  [check_interval |-> IF "check_interval" \in DOMAIN body THEN body.check_interval
                      ELSE DefaultCheckInterval,
   timeout |-> IF "timeout" \in DOMAIN body THEN body.timeout ELSE DefaultTimeout]

\* PUT /admin/services/:id: ServiceModel.update sets the keys of the body
PutService(row, body) ==
  [k \in DOMAIN row |-> IF k \in DOMAIN body THEN body[k] ELSE row[k]]

NoRow == [op |-> "admin", created |-> FALSE]

InitAdmin == InitSeeded(0) /\ call = NoRow

AdminPost(body) ==
  /\ call = NoRow
  /\ call' = [op |-> "admin", created |-> TRUE, row |-> PostService(body)]
  /\ UNCHANGED engine

AdminPut(body) ==
  /\ call.op = "admin"
  /\ call.created
  /\ call' = [call EXCEPT !.row = PutService(call.row, body)]
  /\ UNCHANGED engine

NextAdmin ==
  \/ \E body \in ServiceBodies : AdminPost(body)
  \/ \E body \in ServiceBodies : AdminPut(body)

SpecAdmin == InitAdmin /\ [][NextAdmin]_vars

\* ------------------------------ the on-call schedule routes on their own
\* new Date(text) of a text that is no date: every comparison with it is false
InvalidDate == -2

\* start_time and end_time of a request body, as instants
ScheduleTimes == (1..7) \cup {InvalidDate}

ScheduleBodies ==
  UNION {[keys -> ScheduleTimes] : keys \in SUBSET {"start_time", "end_time"}}

\* new Date(a) >= new Date(b)
DateGte(a, b) == a # InvalidDate /\ b # InvalidDate /\ a >= b

\* POST /admin/oncall/schedules: 400 unless both times are given and not
\* new Date(start_time) >= new Date(end_time)
PostScheduleAccepts(body) ==
  /\ DOMAIN body = {"start_time", "end_time"}
  /\ ~DateGte(body.start_time, body.end_time)

\* PUT /admin/oncall/schedules/:id: the keys that are not undefined go to
\* OnCallScheduleModel.update
PutSchedule(row, body) ==
  [k \in DOMAIN row |-> IF k \in DOMAIN body THEN body[k] ELSE row[k]]

NoSchedule == [op |-> "oncall", created |-> FALSE]

InitSchedules == InitSeeded(0) /\ call = NoSchedule

SchedulePost(body) ==
  /\ call = NoSchedule
  /\ PostScheduleAccepts(body)
  /\ call' = [op |-> "oncall", created |-> TRUE,
               row |-> [start_time |-> body.start_time, end_time |-> body.end_time]]
  /\ UNCHANGED engine

SchedulePut(body) ==
  /\ call.op = "oncall"
  /\ call.created
  /\ call' = [call EXCEPT !.row = PutSchedule(call.row, body)]
  /\ UNCHANGED engine

NextSchedules ==
  \/ \E body \in ScheduleBodies : SchedulePost(body)
  \/ \E body \in ScheduleBodies : SchedulePut(body)

SpecSchedules == InitSchedules /\ [][NextSchedules]_vars

\* ------------------------------------------ HealthChecker.checkService
\* one probe of one target: the request, the verdict of the alert policy, the
\* slow-response overlay, then the DNS and TLS overlays

\* response bodies are texts over two letters, of at most MaxBody letters
MaxBody == 2

Letters == {"o", "k"}

Bodies == UNION {[1..n -> Letters] : n \in 0..MaxBody}

\* alert_keyword: NULL and '' are both the empty text after || ''
Keywords == {<<>>, <<"o", "k">>}

\* alert_http_statuses split at its commas; no item at all is NULL or ''
StatusLists ==
  { <<>>,
    << <<"2", "0", "0">>, <<" ", "2", "0", "1">> >>,
    << <<"5", "0", "3">>, <<"x">> >>,
    << <<"4", "0", "4", " ">>, <<"2", "0", "0">> >> }

\* the status codes of a final response (the client consumes 1xx itself)
StatusCodes == {200, 201, 301, 404, 499, 500, 503}

\* Date.now() - startTime, in milliseconds
ResponseTimes == {0, 800, 801}

Timeouts == {1, 2}

AlertTypes ==
  {"", "unavailable", "contains_keyword", "not_contains_keyword",
   "http_status_other_than"}

\* service.alert_type || 'unavailable'
AlertTypeOf(service) ==
  IF service.alert_type = "" THEN "unavailable" ELSE service.alert_type

NeedsBody(alertType) ==
  alertType = "contains_keyword" \/ alertType = "not_contains_keyword"

\* the rows of the services table a probe can be given: a column the policy
\* of the row never reads is left at its default
ProbedServices ==
  { s \in [alert_type : AlertTypes, alert_keyword : Keywords,
           alert_http_statuses : StatusLists, timeout : Timeouts,
           https : BOOLEAN, verify_ssl : BOOLEAN, verify_domain : BOOLEAN,
           ssl_expiry_threshold : {0, 7}] :
      /\ ~NeedsBody(s.alert_type) => s.alert_keyword = <<>>
      /\ s.alert_type # "http_status_other_than" => s.alert_http_statuses = <<>> }

\* what axios.request can come back with
HttpOutcomes ==
  [kind : {"response"}, status : StatusCodes, body : Bodies,
   elapsed : ResponseTimes]
    \cup [kind : {"ECONNABORTED"}, elapsed : ResponseTimes]
    \cup [kind : {"request", "setup"}, elapsed : ResponseTimes,
          message : {"", "socket hang up"}]

\* what DomainChecker.check and SslChecker.check can come back with
DomainResults ==
  {[kind |-> "valid"], [kind |-> "invalid", error |-> "ENOTFOUND"],
   [kind |-> "threw"]}

SslResults ==
  [kind : {"valid"}, days_remaining : {NULL, 30, 31}]
    \cup {[kind |-> "invalid", error |-> ""], [kind |-> "threw"]}

\* validateStatus of the request config
ValidateStatusBelow500(alertType, status) == status < 500

ValidateStatus(alertType, status) ==
  IF alertType = "http_status_other_than" THEN TRUE ELSE status < 500

\* String.prototype.includes
Includes(body, keyword) ==
  \E i \in 0..(Len(body) - Len(keyword)) :
     SubSeq(body, i + 1, i + Len(keyword)) = keyword

RECURSIVE TextOf(_)
\* a text of letters as a string
TextOf(letters) ==
  IF letters = <<>> THEN "" ELSE Head(letters) \o TextOf(Tail(letters))

RECURSIVE TrimStart(_)
TrimStart(text) ==
  IF text # <<>> /\ Head(text) = " " THEN TrimStart(Tail(text)) ELSE text

RECURSIVE TrimEnd(_)
TrimEnd(text) ==
  IF text # <<>> /\ text[Len(text)] = " "
  THEN TrimEnd(SubSeq(text, 1, Len(text) - 1))
  ELSE text

\* String.prototype.trim
Trim(text) == TrimEnd(TrimStart(text))

Digits == {"0", "1", "2", "3", "4", "5", "6", "7", "8", "9"}

DigitValue(c) ==
  CASE c = "0" -> 0 [] c = "1" -> 1 [] c = "2" -> 2 [] c = "3" -> 3
    [] c = "4" -> 4 [] c = "5" -> 5 [] c = "6" -> 6 [] c = "7" -> 7
    [] c = "8" -> 8 [] c = "9" -> 9

RECURSIVE ParseDigits(_, _)
\* the value of the leading digits of text, after the digits read so far
ParseDigits(text, acc) ==
  IF text # <<>> /\ Head(text) \in Digits
  THEN ParseDigits(Tail(text), 10 * acc + DigitValue(Head(text)))
  ELSE acc

\* parseInt(text, 10) of an unsigned text; NULL stands for NaN
ParseInt(text) ==
  LET t == TrimStart(text)
  IN IF t # <<>> /\ Head(t) \in Digits THEN ParseDigits(t, 0) ELSE NULL

RECURSIVE ParseEach(_)
\* .map(s => parseInt(s.trim(), 10)).filter(n => !isNaN(n))
ParseEach(items) ==
  IF items = <<>> THEN <<>>
  ELSE LET n == ParseInt(Trim(Head(items)))
       IN (IF n = NULL THEN <<>> ELSE <<n>>) \o ParseEach(Tail(items))

\* (service.alert_http_statuses || '200').split(',') and its parsing
ExpectedStatuses(service) ==
  ParseEach(IF service.alert_http_statuses = <<>>
            THEN << <<"2", "0", "0">> >>
            ELSE service.alert_http_statuses)

RECURSIVE Join(_, _)
\* Array.prototype.join of numbers
Join(numbers, separator) ==
  IF numbers = <<>> THEN ""
  ELSE IF Len(numbers) = 1 THEN ToString(Head(numbers))
  ELSE ToString(Head(numbers)) \o separator \o Join(Tail(numbers), separator)

Range(list) == {list[i] : i \in DOMAIN list}

\* axiosError.response.statusText
StatusText(status) ==
  CASE status = 500 -> "Internal Server Error"
    [] status = 503 -> "Service Unavailable"
    [] OTHER -> ""

\* the default policy: 2xx to 4xx is up
UnavailableVerdictStrict(status) ==
  IF status >= 200 /\ status < 400 THEN "operational" ELSE "down"

UnavailableVerdict(status) ==
  IF status >= 200 /\ status < 500 THEN "operational" ELSE "down"

\* the status and the message the alert policy gives a response that
\* validateStatus let through
PolicyVerdict(service, response) ==
  LET alertType == AlertTypeOf(service)
      keyword == service.alert_keyword
      expectedStatuses == ExpectedStatuses(service)
  IN CASE alertType = "contains_keyword" ->
            IF keyword # <<>> /\ Includes(response.body, keyword)
            THEN [status |-> "down",
                  error_message |->
                    "Response contains keyword \"" \o TextOf(keyword) \o "\""]
            ELSE [status |-> "operational", error_message |-> ""]
       [] alertType = "not_contains_keyword" ->
            IF keyword # <<>> /\ ~Includes(response.body, keyword)
            THEN [status |-> "down",
                  error_message |->
                    "Response does not contain keyword \""
                      \o TextOf(keyword) \o "\""]
            ELSE [status |-> "operational", error_message |-> ""]
       [] alertType = "http_status_other_than" ->
            IF response.status \notin Range(expectedStatuses)
            THEN [status |-> "down",
                  error_message |->
                    "HTTP " \o ToString(response.status) \o " (expected "
                      \o Join(expectedStatuses, ", ") \o ")"]
            ELSE [status |-> "operational", error_message |-> ""]
       [] OTHER ->
            [status |-> UnavailableVerdict(response.status),
             error_message |-> ""]

\* the slow-response overlay
SlowResponse(service, status, responseTime) ==
  IF status = "operational" /\ 10 * responseTime > service.timeout * MsPerSec * 8
  THEN "degraded"
  ELSE status

\* the result of the request and the verdict it was made from: base is the
\* status before the slow-response overlay
HttpResult(service, outcome) ==
  LET alertType == AlertTypeOf(service)
  IN CASE outcome.kind = "response"
            /\ ValidateStatus(alertType, outcome.status) ->
            LET verdict == PolicyVerdict(service, outcome)
            IN [base |-> verdict.status,
                status |-> SlowResponse(service, verdict.status, outcome.elapsed),
                response_time |-> outcome.elapsed,
                status_code |-> outcome.status,
                error_message |-> verdict.error_message]
       [] outcome.kind = "response"
            /\ ~ValidateStatus(alertType, outcome.status) ->
            IF /\ alertType = "http_status_other_than"
               /\ outcome.status \in Range(ExpectedStatuses(service))
            THEN [base |-> "operational", status |-> "operational",
                  response_time |-> outcome.elapsed,
                  status_code |-> outcome.status, error_message |-> ""]
            ELSE [base |-> "down", status |-> "down",
                  response_time |-> outcome.elapsed,
                  status_code |-> outcome.status,
                  error_message |->
                    "HTTP " \o ToString(outcome.status) \o ": "
                      \o StatusText(outcome.status)]
       [] outcome.kind = "ECONNABORTED" ->
            [base |-> "down", status |-> "down",
             response_time |-> outcome.elapsed, status_code |-> NULL,
             error_message |-> "Request timeout"]
       [] outcome.kind = "request" ->
            [base |-> "down", status |-> "down",
             response_time |-> outcome.elapsed, status_code |-> NULL,
             error_message |->
               IF outcome.message # "" THEN outcome.message
               ELSE "No response received"]
       [] OTHER ->
            [base |-> "down", status |-> "down",
             response_time |-> outcome.elapsed, status_code |-> NULL,
             error_message |-> outcome.message]

\* message ? `${message}; ${more}` : more
Append2(message, more) ==
  IF message # "" THEN message \o "; " \o more ELSE more

\* the domain part of performSslDomainChecks
DomainOverlay(service, result, domainResult) ==
  IF service.verify_domain /\ domainResult.kind = "invalid"
  THEN [result EXCEPT
          !.status = "down",
          !.error_message =
            Append2(@, "Domain verification failed: " \o domainResult.error)]
  ELSE result

\* a certificate that expires soon
ExpiringSoonAlways(status) == "degraded"

ExpiringSoon(status) == IF status = "operational" THEN "degraded" ELSE status

\* the certificate part of performSslDomainChecks
SslOverlay(service, result, sslResult) ==
  LET threshold ==
        IF service.ssl_expiry_threshold = 0 THEN 30
        ELSE service.ssl_expiry_threshold
  IN IF ~(service.verify_ssl /\ service.https) THEN result
     ELSE CASE sslResult.kind = "invalid" ->
                 [result EXCEPT
                    !.status = "down",
                    !.error_message =
                      Append2(@, "SSL: " \o
                        (IF sslResult.error = "" THEN "SSL certificate invalid"
                         ELSE sslResult.error))]
            [] sslResult.kind = "valid" ->
                 IF /\ sslResult.days_remaining # NULL
                    /\ sslResult.days_remaining <= threshold
                 THEN [result EXCEPT
                         !.status = ExpiringSoon(@),
                         !.error_message =
                           Append2(@, "SSL certificate expires in "
                             \o ToString(sslResult.days_remaining) \o " days")]
                 ELSE result
            [] OTHER ->
                 [result EXCEPT
                    !.error_message = Append2(@, "SSL: SSL check failed")]

PerformSslDomainChecks(service, result, domainResult, sslResult) ==
  SslOverlay(service, DomainOverlay(service, result, domainResult), sslResult)

\* the checks of performSslDomainChecks that throw
Thrown(service, domainResult, sslResult) ==
  (IF service.verify_domain /\ domainResult.kind = "threw"
   THEN {"domain"} ELSE {})
    \cup
  (IF service.verify_ssl /\ service.https /\ sslResult.kind = "threw"
   THEN {"ssl"} ELSE {})

\* the checks whose call stands in a try block with a catch
CaughtSslOnly == {"ssl"}

Caught == {"domain", "ssl"}

\* the exceptions that leave performSslDomainChecks, and with it checkService
Escaped(service, domainResult, sslResult) ==
  Thrown(service, domainResult, sslResult) \ Caught

InitProbe ==
  /\ InitSeeded(0)
  /\ \E service \in ProbedServices :
       call = [op |-> "checkService", pc |-> "request", service |-> service]

\* the fields of a HealthCheckResult
ResultOf(made) == [k \in DOMAIN made \ {"base"} |-> made[k]]

\* axios.request settles and checkService makes its result; a body is asked
\* for by the keyword policies only
RequestDone(outcome) ==
  /\ call.op = "checkService"
  /\ call.pc = "request"
  /\ outcome.kind = "response" /\ ~NeedsBody(AlertTypeOf(call.service))
       => outcome.body = <<>>
  /\ LET made == HttpResult(call.service, outcome)
     IN call' = [op |-> "checkService", pc |-> "overlays",
                 service |-> call.service, outcome |-> outcome,
                 base |-> made.base, result |-> ResultOf(made)]
  /\ UNCHANGED engine

\* the DNS and TLS checks settle and checkService returns; a check that is
\* not enabled is not made
OverlaysDone(domainResult, sslResult) ==
  /\ call.op = "checkService"
  /\ call.pc = "overlays"
  /\ ~call.service.verify_domain => domainResult = [kind |-> "threw"]
  /\ ~(call.service.verify_ssl /\ call.service.https)
       => sslResult = [kind |-> "threw"]
  /\ call' = [op |-> "checkService", pc |-> "done",
              service |-> call.service, outcome |-> call.outcome,
              base |-> call.base,
              domainResult |-> domainResult, sslResult |-> sslResult,
              threw |-> Escaped(call.service, domainResult, sslResult) # {},
              http |-> call.result,
              result |-> PerformSslDomainChecks(call.service, call.result,
                                                domainResult, sslResult)]
  /\ UNCHANGED engine

NextProbe ==
  \/ \E outcome \in HttpOutcomes : RequestDone(outcome)
  \/ \E domainResult \in DomainResults, sslResult \in SslResults :
       OverlaysDone(domainResult, sslResult)

SpecProbe == InitProbe /\ [][NextProbe]_vars

\* operational < degraded < down
Severity(status) ==
  CASE status = "operational" -> 0 [] status = "degraded" -> 1
    [] status = "down" -> 2

\* the result of the request, before the DNS and TLS overlays
HttpOf(c) == IF c.pc = "done" THEN c.http ELSE c.result

\* ------------------------------------------------------- SslChecker.check
MsPerDay == 1000 * 60 * 60 * 24

\* Date.now() when the handshake completes
SslNows == {ClockOrigin, ClockOrigin + 1, MsPerDay, 2 * MsPerDay}

\* new Date(cert.valid_to).getTime() - Date.now()
ExpiryOffsets ==
  {0 - MsPerDay - 1, 0 - MsPerDay, -1, 0, 1, MsPerDay - 1, MsPerDay,
   MsPerDay + 1, 2 * MsPerDay, 3 * MsPerDay - 1}

\* what tls.connect can come back with
Handshakes ==
  [kind : {"certificate"}, authorized : BOOLEAN,
   valid_to : {n + d : n \in SslNows, d \in ExpiryOffsets}]
    \cup {[kind |-> "no certificate"], [kind |-> "error"], [kind |-> "timeout"]}

\* the SslCheckResult of a handshake that completes at the instant at
SslCheck(handshake, at) ==
  CASE handshake.kind = "certificate" ->
         LET daysRemaining == (handshake.valid_to - at) \div MsPerDay
         IN [valid |-> handshake.authorized /\ daysRemaining > 0,
             days_remaining |-> daysRemaining,
             error |-> IF handshake.authorized THEN ""
                       ELSE "Certificate not trusted"]
    [] handshake.kind = "no certificate" ->
         [valid |-> FALSE, days_remaining |-> NULL,
          error |-> "No certificate found"]
    [] handshake.kind = "error" ->
         [valid |-> FALSE, days_remaining |-> NULL,
          error |-> "TLS connection failed"]
    [] OTHER ->
         [valid |-> FALSE, days_remaining |-> NULL,
          error |-> "SSL check timed out"]

\* the SslCheckResult as performSslDomainChecks reads it
AsSslResult(checked) ==
  IF checked.valid
  THEN [kind |-> "valid", days_remaining |-> checked.days_remaining]
  ELSE [kind |-> "invalid", error |-> checked.error]

\* an https target with the TLS check on
SslService ==
  [alert_type |-> "", alert_keyword |-> <<>>, alert_http_statuses |-> <<>>,
   timeout |-> 1, https |-> TRUE, verify_ssl |-> TRUE, verify_domain |-> FALSE,
   ssl_expiry_threshold |-> 0]

InitSsl ==
  /\ InitSeeded(0)
  /\ \E handshake \in Handshakes, at \in SslNows,
        status \in {"operational", "down"} :
       /\ handshake.kind = "certificate"
            => handshake.valid_to - at \in ExpiryOffsets
       /\ call = [op |-> "SslChecker.check", pc |-> "connect",
                  handshake |-> handshake, at |-> at,
                  result |-> [status |-> status, error_message |-> ""]]

\* the handshake completes and the validator resolves
SslChecked ==
  /\ call.op = "SslChecker.check"
  /\ call.pc = "connect"
  /\ call' = [call EXCEPT !.pc = "checked"]
               @@ [checked |-> SslCheck(call.handshake, call.at)]
  /\ UNCHANGED engine

\* performSslDomainChecks takes the validator's result into the check result
SslApplied ==
  /\ call.op = "SslChecker.check"
  /\ call.pc = "checked"
  /\ call' = [call EXCEPT
                !.pc = "applied",
                !.result = SslOverlay(SslService, @, AsSslResult(call.checked))]
  /\ UNCHANGED engine

NextSsl == SslChecked \/ SslApplied

SpecSsl == InitSsl /\ [][NextSsl]_vars

\* ------------------------------------ OnCallScheduleModel.getCurrentOnCall
\* the schedules the table holds at most
MaxSchedules == 2

MinPerDay == 24 * MinPerHour

SecPerDay == MinPerDay * SecPerMin

\* the instant, in seconds since the epoch, of a day of January 1970 at
\* hours:minutes:seconds UTC
Instant(day, hours, minutes, seconds) ==
  (((day - 1) * 24 + hours) * MinPerHour + minutes) * SecPerMin + seconds

\* Date.prototype.toISOString: the fields of the text, each of fixed width
ToISOString(t) ==
  <<1970, 1, 1 + t \div SecPerDay, (t \div (MinPerHour * SecPerMin)) % 24,
    (t \div SecPerMin) % MinPerHour, t % SecPerMin>>

\* new Date(text).getTime() of such a text
NewDate(text) == Instant(text[3], text[4], text[5], text[6])

\* the order of two such texts as SQLite compares TEXT
TextLess(a, b) ==
  \E i \in 1..6 : a[i] < b[i] /\ \A j \in 1..(i - 1) : a[j] = b[j]

\* 1 January 1970 was a Thursday
GetUTCDay(t) == (4 + t \div SecPerDay) % 7

GetUTCHours(t) == (t \div (MinPerHour * SecPerMin)) % 24

GetUTCMinutes(t) == (t \div SecPerMin) % MinPerHour

\* the windows of the schedules, as <<start, end>>: Monday 5th 09:00 to
\* 17:00, Monday 22:00 to Tuesday 06:00, Saturday 3rd 12:00 to Monday 09:00,
\* Monday 09:00 to Tuesday 06:00, Saturday 12:00 to Tuesday 06:00
ScheduleWindows ==
  {<<Instant(5, 9, 0, 0), Instant(5, 17, 0, 0)>>,
   <<Instant(5, 22, 0, 0), Instant(6, 6, 0, 0)>>,
   <<Instant(3, 12, 0, 0), Instant(5, 9, 0, 0)>>,
   <<Instant(5, 9, 0, 0), Instant(6, 6, 0, 0)>>,
   <<Instant(3, 12, 0, 0), Instant(6, 6, 0, 0)>>}

\* the instants getCurrentOnCall is called at
ResolveInstants ==
  {Instant(1, 0, 0, 0), Instant(3, 12, 0, 0), Instant(4, 12, 0, 0),
   Instant(5, 8, 59, 59), Instant(5, 12, 0, 0), Instant(5, 17, 0, 30),
   Instant(6, 3, 0, 0), Instant(10, 12, 0, 0), Instant(12, 12, 0, 0)}

\* the bodies POST /admin/oncall/schedules accepts, as the admin page sends
\* them
ScheduleRows ==
  { r \in [start_time : {ToISOString(w[1]) : w \in ScheduleWindows},
           end_time : {ToISOString(w[2]) : w \in ScheduleWindows},
           recurrence : {"none", "daily", "weekly"}] :
      /\ <<NewDate(r.start_time), NewDate(r.end_time)>> \in ScheduleWindows
      /\ ~(NewDate(r.start_time) >= NewDate(r.end_time)) }

\* does the schedule cover the instant at
IsOnCallNoWrap(schedule, at) ==
  LET start == NewDate(schedule.start_time)
      end == NewDate(schedule.end_time)
      startHM == GetUTCHours(start) * 60 + GetUTCMinutes(start)
      endHM == GetUTCHours(end) * 60 + GetUTCMinutes(end)
      nowHM == GetUTCHours(at) * 60 + GetUTCMinutes(at)
  IN CASE schedule.recurrence = "none" -> at >= start /\ at <= end
       [] schedule.recurrence = "daily" -> nowHM >= startHM /\ nowHM <= endHM
       [] OTHER ->
            /\ GetUTCDay(at) * 1440 + nowHM >= GetUTCDay(start) * 1440 + startHM
            /\ GetUTCDay(at) * 1440 + nowHM <= GetUTCDay(end) * 1440 + endHM

IsOnCallAfterStart(schedule, at) ==
  LET start == NewDate(schedule.start_time)
      end == NewDate(schedule.end_time)
  IN at >= start /\ at <= end

IsOnCall(schedule, at) ==
  LET start == NewDate(schedule.start_time)
      end == NewDate(schedule.end_time)
  IN CASE schedule.recurrence = "none" -> at >= start /\ at <= end
       [] schedule.recurrence = "daily" ->
            LET startHM == GetUTCHours(start) * 60 + GetUTCMinutes(start)
                endHM == GetUTCHours(end) * 60 + GetUTCMinutes(end)
                nowHM == GetUTCHours(at) * 60 + GetUTCMinutes(at)
            IN IF startHM <= endHM
               THEN nowHM >= startHM /\ nowHM <= endHM
               ELSE nowHM >= startHM \/ nowHM <= endHM
       [] schedule.recurrence = "weekly" ->
            LET startHM == GetUTCHours(start) * 60 + GetUTCMinutes(start)
                endHM == GetUTCHours(end) * 60 + GetUTCMinutes(end)
                nowHM == GetUTCHours(at) * 60 + GetUTCMinutes(at)
                nowTotal == GetUTCDay(at) * 1440 + nowHM
                startTotal == GetUTCDay(start) * 1440 + startHM
                endTotal == GetUTCDay(end) * 1440 + endHM
            IN IF startTotal <= endTotal
               THEN nowTotal >= startTotal /\ nowTotal <= endTotal
               ELSE nowTotal >= startTotal \/ nowTotal <= endTotal
       [] OTHER -> FALSE

\* the rows in the order they were inserted
ScheduleOrdersByRowid(rows) == {[i \in DOMAIN rows |-> i]}

\* OnCallScheduleModel.getAll: the ids of the rows in an order ORDER BY
\* s.start_time ASC can give; rows of equal start_time come in any order
ScheduleOrders(rows) ==
  { order \in [DOMAIN rows -> DOMAIN rows] :
      /\ \A i, j \in DOMAIN rows : i # j => order[i] # order[j]
      /\ \A i, j \in DOMAIN rows :
           i < j => ~TextLess(rows[order[j]].start_time,
                              rows[order[i]].start_time) }

RECURSIVE FirstOnCall(_, _, _, _)
\* the loop of getCurrentOnCall from the position i of the order on
FirstOnCall(rows, order, i, at) ==
  IF i > Len(order) THEN NULL
  ELSE IF IsOnCall(rows[order[i]], at) THEN order[i]
  ELSE FirstOnCall(rows, order, i + 1, at)

InitOnCall ==
  /\ InitSeeded(0)
  /\ call = [op |-> "getCurrentOnCall", schedules |-> <<>>, now |-> NULL,
             result |-> NULL]

\* POST /admin/oncall/schedules
OnCallCreate(row) ==
  /\ call.op = "getCurrentOnCall"
  /\ call.now = NULL
  /\ Len(call.schedules) < MaxSchedules
  /\ call' = [op |-> "getCurrentOnCall",
              schedules |-> Append(call.schedules, row), now |-> NULL,
              result |-> NULL]
  /\ UNCHANGED engine

\* GET /admin/oncall/current at the instant at; it reads the table only, so
\* it is taken once for each table
OnCallResolve(at) ==
  /\ call.op = "getCurrentOnCall"
  /\ call.now = NULL
  /\ \E order \in ScheduleOrders(call.schedules) :
       call' = [call EXCEPT
                  !.now = at,
                  !.result = FirstOnCall(call.schedules, order, 1, at)]
  /\ UNCHANGED engine

NextOnCall ==
  \/ \E row \in ScheduleRows : OnCallCreate(row)
  \/ \E at \in ResolveInstants : OnCallResolve(at)

SpecOnCall == InitOnCall /\ [][NextOnCall]_vars

\* the schedules of the table that cover the instant of the last resolution
OnCallAt(c) == {i \in DOMAIN c.schedules : IsOnCall(c.schedules[i], c.now)}

\* ------------------------------- IncidentModel.getDowntimeLogByServiceId
\* the resolved incidents of the history
MaxResolved == 2

\* Date.now() of the call, in milliseconds
LogNow == 100 * MsPerSec

\* duration of a resolved incident, in seconds; NULL when none was stored
Durations == {NULL, 0, 30, 100}

\* started_at of the open incident, or NULL when there is none
ActiveStarts == {NULL, LogNow - 500, LogNow - 30 * MsPerSec, LogNow - 90 * MsPerSec}

\* created_at of the target, or NULL when the row has none
CreatedAts ==
  {NULL, LogNow + 5 * MsPerSec, LogNow, LogNow - 999, LogNow - MsPerSec,
   LogNow - 60 * MsPerSec}

RECURSIVE TotalDowntime(_)
\* resolvedIncidents.reduce((sum, i) => sum + (i.duration || 0), 0)
TotalDowntime(durations) ==
  IF durations = <<>> THEN 0
  ELSE (IF Head(durations) = NULL THEN 0 ELSE Head(durations))
         + TotalDowntime(Tail(durations))

\* Math.max(0, Math.min(100, x)), in thousandths of a percent
Unclamped(x) == x

Clamp(x) ==
  LET capped == IF x < 100 * 1000 THEN x ELSE 100 * 1000
  IN IF capped > 0 THEN capped ELSE 0

\* parseFloat(((1 - allDowntime / total) * 100).toFixed(3)), in thousandths
\* of a percent
ToFixed3(allDowntime, total) ==
  (2 * 100 * 1000 * (total - allDowntime) + total) \div (2 * total)

\* the downtime figures of the log, uptime_percentage in thousandths
DowntimeLog(durations, activeStart, createdAt, at) ==
  LET totalDowntimeSeconds == TotalDowntime(durations)
      currentDowntimeSeconds ==
        IF activeStart = NULL THEN 0 ELSE (at - activeStart) \div MsPerSec
      totalMonitoredSeconds ==
        IF createdAt = NULL THEN 0 ELSE (at - createdAt) \div MsPerSec
      allDowntime == totalDowntimeSeconds + currentDowntimeSeconds
  IN [total_downtime_seconds |-> totalDowntimeSeconds,
      current_downtime_seconds |-> currentDowntimeSeconds,
      uptime_percentage |->
        IF createdAt # NULL /\ totalMonitoredSeconds > 0
        THEN Clamp(ToFixed3(allDowntime, totalMonitoredSeconds))
        ELSE 100 * 1000]

InitDowntime ==
  /\ InitSeeded(0)
  /\ \E n \in 0..MaxResolved :
       \E durations \in [1..n -> Durations], activeStart \in ActiveStarts,
          createdAt \in CreatedAts :
         call = [op |-> "getDowntimeLogByServiceId", done |-> FALSE,
                 durations |-> durations, activeStart |-> activeStart,
                 createdAt |-> createdAt]

\* GET /services/:id/downtime
GetDowntimeLog ==
  /\ call.op = "getDowntimeLogByServiceId"
  /\ ~call.done
  /\ call' = [call EXCEPT !.done = TRUE]
               @@ [log |-> DowntimeLog(call.durations, call.activeStart,
                                       call.createdAt, LogNow)]
  /\ UNCHANGED engine

SpecDowntime == InitDowntime /\ [][GetDowntimeLog]_vars

\* ------------------------ the engine under edits of the target's settings
\* url stands for what the probe reads of a row: URL, timeout, alert policy
SeededUrl == "https://a.example"

EditedUrls == {"https://b.example"}

\* the seeded rows with the settings the probe reads
SeededTargets(n) ==
  [i \in 1..n |-> [id |-> i, check_interval |-> 60, status |-> "unknown",
                   url |-> SeededUrl]]

\* one seeded target: the edits of a target do not reach another target
InitEdits ==
  /\ call = NoCall
  /\ InitEngine(SeededTargets(1))
  /\ rowid = [services |-> 1, service_checks |-> 0, incidents |-> 0]

\* if (updates.check_interval)
RescheduleAlways(interval) == TRUE

RescheduleOnEdit(interval) == interval # Absent /\ interval # 0

\* PUT /admin/services/:id with a body of url and check_interval, either of
\* which may be missing; the request is kept in call
AdminEdit(id, url, interval) ==
  /\ phase = "running"
  /\ id \in DOMAIN services
  /\ url # "" \/ interval # Absent
  /\ services' = [ServiceModelUpdate(services, id, interval) EXCEPT
                    ![id].url = IF url = "" THEN @ ELSE url]
  /\ IF RescheduleOnEdit(interval)
     THEN /\ Cardinality(DOMAIN timers) < MaxTimers
          /\ LET sch == ScheduleService(cronJobs, timers, Config(services'[id]))
             IN /\ cronJobs' = sch.cronJobs
                /\ timers' = sch.timers
     ELSE UNCHANGED <<cronJobs, timers>>
  /\ call' = [op |-> "PUT /admin/services/:id", id |-> id, url |-> url,
              check_interval |-> interval]
  /\ UNCHANGED <<now, checks, incidents, rowid, tasks, notifier, alerts,
                 aborted, failed, phase>>

NextEdits ==
  \/ StartMonitoring
  \/ \E id \in {1}, url \in EditedUrls \cup {""},
        interval \in UpdateIntervals \cup {Absent} : AdminEdit(id, url, interval)
  \/ \E h \in 1..MaxTimers : CronTick(h)
  \/ \E t \in 1..MaxTasks, r \in ProbeResults, d \in Elapsed : ProbeDone(t, r, d)
  \/ \E t \in 1..MaxTasks, n \in 0..MaxRecipients, k \in 0..MaxRecipients :
       SendDownDone(t, n, k)
  \/ \E t \in 1..MaxTasks : SendRecoveredDone(t)

SpecEdits == InitEdits /\ [][NextEdits]_vars

\* how many executions are at their probe
NumProbing(tsks) == Cardinality({t \in 1..MaxTasks : tsks[t].pc = "probe"})

\* the executions that are at their probe, with what each probes
Probing(tsks) ==
  [c \in {tsks[t].service : t \in {u \in 1..MaxTasks : tsks[u].pc = "probe"}} |->
     Cardinality({t \in 1..MaxTasks : tsks[t].pc = "probe" /\ tsks[t].service = c})]

\* the scheduler and the ticks of an engine started over a seeded database
\* that holds up to one target more than the admin creates
InitTargets == call = NoCall /\ \E n \in 1..(MaxServices + 1) : InitSeeded(n)

NextTargets ==
  \/ StartMonitoring
  \/ \E h \in 1..MaxTimers : CronTick(h)
  \/ \E t \in 1..MaxTasks, r \in ProbeResults, d \in Elapsed : ProbeDone(t, r, d)
  \/ \E t \in 1..MaxTasks, n \in 0..MaxRecipients, k \in 0..MaxRecipients :
       SendDownDone(t, n, k)
  \/ \E t \in 1..MaxTasks : SendRecoveredDone(t)

SpecTargets == InitTargets /\ [][NextTargets]_vars

TypeOK ==
  /\ now \in ClockOrigin..(ClockOrigin + MaxClockSteps * ClockStep)
  /\ DOMAIN services \subseteq 1..MaxServices
  /\ DOMAIN timers \subseteq 1..MaxTimers
  /\ rowid.service_checks <= MaxChecks
  /\ Len(alerts) = rowid.incidents
  /\ phase \in {"init", "running", "stopped"}

\* ------------------------------------------------------- derived history
\* the rows of service_checks are inserted once per tick that reaches the
\* store, in the order the ticks are processed
ChecksOf(sid) == {c \in checks : c.service_id = sid}

IncidentsOf(sid) == {i \in incidents : i.service_id = sid}

\* p is the check row of the tick processed just before the tick of row c
Precedes(p, c, chks) ==
  /\ p \in chks
  /\ p.service_id = c.service_id
  /\ p.id < c.id
  /\ \A q \in chks : (q.service_id = c.service_id /\ q.id < c.id) => q.id <= p.id

\* the ticks that begin an outage: they report down and the tick before
\* them (if any) did not
OutageStarts(sid) ==
  {c \in ChecksOf(sid) :
     /\ c.status = "down"
     /\ \A p \in checks : Precedes(p, c, checks) => p.status # "down"}

\* incident rows with the notification flag left out
Unflagged(incs) ==
  {[id |-> i.id, service_id |-> i.service_id, started_at |-> i.started_at,
    resolved_at |-> i.resolved_at, duration |-> i.duration,
    error_message |-> i.error_message] : i \in incs}

\* a tick of target sid threw in the Store
ThrewFor(sid) == \E i \in 1..Len(failed) : failed[i].service_id = sid

\* every target of a running engine has its registered, running job
Registered(sid) ==
  /\ sid \in DOMAIN cronJobs
  /\ cronJobs[sid] \in LiveTimers
  /\ timers[cronJobs[sid]].service.id = sid

\* the executions of target sid that are awaiting
PendingOf(tsks, sid) ==
  [pc \in {"probe", "sendDown", "sendRecovered"} |->
     Cardinality({t \in 1..MaxTasks : tsks[t].pc = pc /\ tsks[t].service.id = sid})]

\* how many recipients of the list fail
RECURSIVE Failures(_)
Failures(fails) ==
  IF fails = <<>> THEN 0
  ELSE (IF Head(fails) THEN 1 ELSE 0) + Failures(Tail(fails))

\* ---------------------------------------------------------------- claims

\* C1: for every target, in every reachable state, at most one incident
\* with a null resolve timestamp exists.
C1_AtMostOneOpenIncident ==
  \A sid \in 1..MaxServices : Cardinality(OpenIncidents(incidents, sid)) <= 1

\* two ticks of one target reported down, the second while the first was
\* still awaiting sendDown, and the target has its one open incident
C1_Witness ==
  \E sid \in DOMAIN services :
    /\ Cardinality(OpenIncidents(incidents, sid)) = 1
    /\ Cardinality({c \in ChecksOf(sid) : c.status = "down"}) >= 2
    /\ \E t \in 1..MaxTasks : tasks[t].pc = "sendDown" /\ tasks[t].service.id = sid

\* C2: two executions of checkService for the same target never overlap
\* (a tick for a target already in flight is skipped or queued).
C2_SingleFlight ==
  \A t1, t2 \in 1..MaxTasks :
    (t1 # t2 /\ InFlight(t1) /\ InFlight(t2))
      => tasks[t1].service.id # tasks[t2].service.id

\* C3: a tick that reports the same status as the tick before it creates
\* no incident, resolves none and calls neither sendDown nor sendRecovered;
\* every outage (maximal run of down ticks) has exactly one incident, for
\* which sendDown was called once.
C3_Idempotent ==
  /\ [](\A sid \in DOMAIN services :
          /\ Cardinality(IncidentsOf(sid)) = Cardinality(OutageStarts(sid))
          /\ \A i \in IncidentsOf(sid) : alerts[i.id].downCalls = 1)
  /\ [][\A c \in checks' \ checks :
          (\E p \in checks : Precedes(p, c, checks) /\ p.status = c.status)
            => (incidents' = incidents /\ alerts' = alerts)]_vars

\* a target whose last two ticks both reported down has one incident
C3_Witness ==
  \E sid \in DOMAIN services :
    /\ \E c \in ChecksOf(sid), p \in ChecksOf(sid) :
         Precedes(p, c, checks) /\ p.status = "down" /\ c.status = "down"
    /\ Cardinality(IncidentsOf(sid)) = 1

\* C4: a tick with previous status not down and new status down creates
\* exactly one incident (start = now, resolve timestamp null, error = the
\* classifier message) and stores status down; the completion of sendDown,
\* failed or not, changes neither the stored status nor the incident apart
\* from the notification flag, and a failed one changes nothing at all.
C4_DownOpensIncident ==
  [][/\ \A c \in checks' \ checks :
          (services[c.service_id].status # "down" /\ c.status = "down")
            => /\ \E i \in incidents' \ incidents :
                    /\ incidents' = incidents \cup {i}
                    /\ i.service_id = c.service_id
                    /\ i.started_at = now'
                    /\ i.resolved_at = NULL
                    /\ i.error_message = c.error_message
               /\ services'[c.service_id].status = "down"
     /\ \A id \in 1..Len(alerts) :
          (alerts[id].down = "pending" /\ alerts'[id].down # "pending")
            => /\ services' = services
               /\ Unflagged(incidents') = Unflagged(incidents)
               /\ alerts'[id].down = "failed" => incidents' = incidents]_vars

\* sendDown failed for an incident that is still open on a target that is
\* still down
C4_Witness ==
  \E i \in incidents :
    /\ alerts[i.id].down = "failed"
    /\ i.resolved_at = NULL
    /\ i.error_message = "Request timeout"
    /\ services[i.service_id].status = "down"

\* C5: a tick with previous status down and new status operational or
\* degraded resolves the open incident of the target (resolve timestamp and
\* duration set) and calls sendRecovered; after it no incident of the
\* target is open.
C5_RecoveryResolves ==
  [][\A c \in checks' \ checks :
       (services[c.service_id].status = "down" /\ c.status # "down")
         => /\ OpenIncidents(incidents, c.service_id) # {}
            /\ \A i \in OpenIncidents(incidents, c.service_id) :
                 \E j \in incidents' :
                   j.id = i.id /\ j.resolved_at # NULL /\ j.duration # NULL
            /\ OpenIncidents(incidents', c.service_id) = {}
            /\ \E id \in 1..Len(alerts) :
                 /\ alerts'[id].recCalls = alerts[id].recCalls + 1
                 /\ alerts'[id].recovered = "pending"]_vars

\* a target went from down to degraded: its incident is resolved and
\* sendRecovered was called for it
C5_Witness ==
  \E i \in incidents :
    /\ i.resolved_at # NULL
    /\ alerts[i.id].recCalls = 1
    /\ services[i.service_id].status = "degraded"
    /\ OpenIncidents(incidents, i.service_id) = {}

\* C6: the notification-sent flag of an incident is set only when a down
\* notification was sent for it.
C6_FlagOnlyWhenSent ==
  \A i \in incidents : i.notification_sent => alerts[i.id].down = "sent"

\* C7: for every resolved incident, duration = (resolve timestamp - start
\* timestamp) in whole seconds, and duration >= 0.
C7_DurationMatchesTimestamps ==
  \A i \in incidents :
    i.resolved_at # NULL
      => /\ i.duration = (i.resolved_at - i.started_at) \div MsPerSec
         /\ i.duration >= 0

\* C8: a tick that moves a target into degraded from a status other than
\* down leaves the incidents unchanged and calls no notification.
C8_DegradedIsSilent ==
  [][\A c \in checks' \ checks :
       (services[c.service_id].status # "down" /\ c.status = "degraded")
         => (incidents' = incidents /\ alerts' = alerts)]_vars

\* a target is degraded and was never down
C8_Witness ==
  \E sid \in DOMAIN services :
    /\ services[sid].status = "degraded"
    /\ \A c \in ChecksOf(sid) : c.status # "down"
    /\ IncidentsOf(sid) = {}

\* C9: every live timer is the one the registry records under its target
\* id, so no target has two live timers.
C9_OneTimerPerTarget ==
  /\ \A h \in LiveTimers :
       /\ timers[h].service.id \in DOMAIN cronJobs
       /\ cronJobs[timers[h].service.id] = h
  /\ \A sid \in DOMAIN cronJobs : cronJobs[sid] \in LiveTimers

\* the timer of an edited target was replaced: the registry holds one live
\* timer for it, created with the edited interval
C9_Witness ==
  \E sid \in DOMAIN cronJobs :
    /\ timers[cronJobs[sid]].service.check_interval \in UpdateIntervals
    /\ Cardinality({h \in LiveTimers : timers[h].service.id = sid}) = 1

\* C10: a deleted target has no timer, no registry entry, no check row and
\* no incident row, also after a tick that was in flight at the deletion
\* has completed.
C10_DeleteLeavesNothing ==
  \A sid \in (1..rowid.services) \ DOMAIN services :
    /\ sid \notin DOMAIN cronJobs
    /\ \A h \in LiveTimers : timers[h].service.id # sid
    /\ ChecksOf(sid) = {}
    /\ IncidentsOf(sid) = {}

\* a tick of a deleted target completed after the deletion
C10_Witness ==
  \E sid \in aborted :
    /\ sid \notin DOMAIN services
    /\ \A t \in 1..MaxTasks : InFlight(t) => tasks[t].service.id # sid

\* C11: a Store failure during a tick abandons only that tick: the step
\* leaves the registry, the running jobs and the other executions as they
\* were, every target of the running engine keeps its registered job, and a
\* later tick of the target that reaches the Store records its check row and
\* stores its status.
C11_StoreFailureAbandonsTickOnly ==
  /\ [](phase = "running" => \A sid \in DOMAIN services : Registered(sid))
  /\ [][/\ failed' # failed
           => /\ cronJobs' = cronJobs /\ timers' = timers /\ phase' = phase
              /\ incidents' = incidents
              /\ \E t \in 1..MaxTasks :
                   tasks' = Pending([tasks EXCEPT ![t] = Idle])
        /\ \A c \in checks' \ checks :
             (ThrewFor(c.service_id) /\ failed' = failed)
               => services'[c.service_id].status = c.status]_vars

\* a tick of a target threw in the Store; the job of the target is still
\* registered and a later tick of it was recorded and set the status
C11_Witness ==
  \E sid \in DOMAIN services :
    /\ ThrewFor(sid)
    /\ phase = "running"
    /\ Registered(sid)
    /\ \E c \in ChecksOf(sid) :
         /\ \A i \in 1..Len(failed) : failed[i].service_id = sid => c.id > failed[i].at
         /\ services[sid].status = c.status

C13_EveryRecipientAttempted ==
  (call.op \in {"sendServiceDownAlert", "sendServiceRecoveredAlert"} /\ call.done)
    => LET n == Len(call.fails)
       IN /\ notifier.isConfigured
               => call.out.attempted = [i \in 1..n |-> i]
          /\ call.out.threw
               <=> (notifier.isConfigured /\ n > 0 /\ \A i \in 1..n : call.fails[i])
          /\ call.out.threw
               = SendServiceAlert(notifier, n, Failures(call.fails)).threw
          /\ Unflagged(call.incidents) = Unflagged(OpenedIncident)
          /\ call.out.threw => call.incidents = OpenedIncident

\* the first recipient failed, a later one did not: all were attempted and
\* the alert did not throw
C13_Witness ==
  /\ call.op = "sendServiceDownAlert"
  /\ call.done
  /\ Len(call.fails) = MaxRecipients
  /\ call.fails[1]
  /\ ~call.fails[Len(call.fails)]
  /\ Len(call.out.attempted) = MaxRecipients
  /\ ~call.out.threw

\* C14: the scheduled ticks of a target with check interval N seconds
\* (N >= 30) are N seconds apart, for every N.
C14_TicksEveryInterval ==
  (call.op = "schedule" /\ call.check_interval >= 30 /\ call.gap # NULL)
    => call.gap = call.check_interval

\* C15: every target in the store has check interval >= 30 seconds and
\* timeout > 0, after any sequence of admin create and update operations.
C15_IntervalAndTimeoutValid ==
  (call.op = "admin" /\ call.created)
    => (call.row.check_interval >= 30 /\ call.row.timeout > 0)

\* C16: every on-call schedule in the store has start < end, after any
\* sequence of schedule create and update operations.
C16_StartBeforeEnd ==
  (call.op = "oncall" /\ call.created)
    => /\ call.row.start_time # InvalidDate
       /\ call.row.end_time # InvalidDate
       /\ call.row.start_time < call.row.end_time

C18_KeywordOnly ==
  (/\ call.op = "checkService"
   /\ call.pc # "request"
   /\ NeedsBody(call.service.alert_type)
   /\ call.service.alert_keyword # <<>>
   /\ call.outcome.kind = "response")
    => LET found == Includes(call.outcome.body, call.service.alert_keyword)
       IN /\ call.service.alert_type = "contains_keyword"
               => (call.base = "down" <=> found)
          /\ call.service.alert_type = "not_contains_keyword"
               => (call.base = "down" <=> ~found)
          /\ call.base # "down" => call.base = "operational"

\* C19: under the alert policy http_status_other_than a received response is
\* down exactly when its status code is not in the allow-list (200 when none
\* is configured) and operational when it is, for every status code, those
\* >= 500 included; when down the message is "HTTP <code> (expected <the
\* allow-list joined by ", ">)": with the allow-list 200, 201 the code 201 is
\* operational and 404 is down with "HTTP 404 (expected 200, 201)".
C19_StatusAllowList ==
  (/\ call.op = "checkService"
   /\ call.pc # "request"
   /\ call.service.alert_type = "http_status_other_than"
   /\ call.outcome.kind = "response")
    => LET code == call.outcome.status
           listed == ExpectedStatuses(call.service)
           made == HttpOf(call)
       IN /\ call.base = "down" <=> code \notin Range(listed)
          /\ call.base # "down" => call.base = "operational"
          /\ made.status_code = code
          /\ call.base = "down"
               => made.error_message =
                    "HTTP " \o ToString(code) \o " (expected "
                      \o Join(listed, ", ") \o ")"
          /\ call.service.alert_http_statuses = <<>> => listed = <<200>>
          /\ call.service.alert_http_statuses
                = << <<"2", "0", "0">>, <<" ", "2", "0", "1">> >>
               => /\ listed = <<200, 201>>
                  /\ code = 201 => call.base = "operational"
                  /\ code = 404
                       => /\ call.base = "down"
                          /\ made.error_message = "HTTP 404 (expected 200, 201)"

C19_Witness ==
  /\ call.op = "checkService"
  /\ call.pc = "overlays"
  /\ call.service.alert_type = "http_status_other_than"
  /\ call.service.alert_http_statuses
       = << <<"2", "0", "0">>, <<" ", "2", "0", "1">> >>
  /\ call.outcome.kind = "response"
  /\ call.outcome.status = 404
  /\ call.result.status = "down"
  /\ call.result.error_message = "HTTP 404 (expected 200, 201)"

\* C20: the final status of a check is never better than the verdict of the
\* alert policy (operational < degraded < down): the slow-response, DNS and
\* TLS overlays keep or worsen the status, and degraded comes only from a
\* verdict that is operational, never from down.
C20_OverlaysOnlyWorsen ==
  (call.op = "checkService" /\ call.pc # "request")
    => /\ Severity(HttpOf(call).status) >= Severity(call.base)
       /\ Severity(call.result.status) >= Severity(HttpOf(call).status)
       /\ HttpOf(call).status = "degraded" => call.base = "operational"
       /\ call.result.status = "degraded" => call.base = "operational"

C20_Witness ==
  /\ call.op = "checkService"
  /\ call.pc = "done"
  /\ call.base = "down"
  /\ call.service.verify_ssl
  /\ call.service.https
  /\ call.sslResult.kind = "valid"
  /\ call.sslResult.days_remaining = 30
  /\ call.service.ssl_expiry_threshold = 0
  /\ call.result.status = "down"

\* C21: with the TLS check on for an https target and a valid certificate,
\* the result goes from operational to degraded exactly when the days
\* remaining are <= the expiry threshold stored for the target, whatever that
\* threshold is, and an expiry warning is appended to the message; a result
\* that is already down stays down.
C21_ExpiryThreshold ==
  (/\ call.op = "checkService"
   /\ call.pc = "done"
   /\ call.service.verify_ssl
   /\ call.service.https
   /\ call.sslResult.kind = "valid"
   /\ call.sslResult.days_remaining # NULL)
    => LET before == DomainOverlay(call.service, call.http, call.domainResult)
           days == call.sslResult.days_remaining
           soon == days <= call.service.ssl_expiry_threshold
       IN /\ before.status = "operational"
               => (call.result.status = "degraded" <=> soon)
          /\ before.status = "operational" /\ ~soon
               => call.result.status = "operational"
          /\ before.status = "down" => call.result.status = "down"
          /\ soon => call.result.error_message =
                       Append2(before.error_message,
                               "SSL certificate expires in " \o ToString(days)
                                 \o " days")

\* C22: the TLS validator reports valid exactly when the chain is trusted and
\* the certificate expires later than now, and days-remaining =
\* floor((expiry - now) / 86400 s), for every expiry instant, those less than
\* a day ahead included; an invalid certificate makes the check result down.
C22_ValidIffTrustedAndUnexpired ==
  (/\ call.op = "SslChecker.check"
   /\ call.pc # "connect"
   /\ call.handshake.kind = "certificate")
    => /\ call.checked.valid
            <=> (call.handshake.authorized /\ call.handshake.valid_to > call.at)
       /\ call.checked.days_remaining
            = (call.handshake.valid_to - call.at) \div MsPerDay
       /\ (call.pc = "applied" /\ ~call.checked.valid)
            => call.result.status = "down"

\* C23: checkService always returns a result and never throws, for every
\* target and every outcome (success, failure or exception) of the request,
\* the DNS check and the TLS check; and when the request fails at the network
\* level (timeout, refused or reset connection, malformed URL) the returned
\* status is down.
C23_AlwaysReturnsResult ==
  /\ (call.op = "checkService" /\ call.pc = "overlays")
       => \A domainResult \in DomainResults, sslResult \in SslResults :
            (/\ ~call.service.verify_domain => domainResult = [kind |-> "threw"]
             /\ ~(call.service.verify_ssl /\ call.service.https)
                  => sslResult = [kind |-> "threw"])
              => ENABLED OverlaysDone(domainResult, sslResult)
  /\ (call.op = "checkService" /\ call.pc = "done")
       => /\ ~call.threw
          /\ call.result.status \in {"operational", "degraded", "down"}
          /\ call.outcome.kind # "response" => call.result.status = "down"

C23_Witness ==
  /\ call.op = "checkService"
  /\ call.pc = "done"
  /\ call.outcome.kind = "ECONNABORTED"
  /\ call.service.verify_domain
  /\ call.domainResult.kind = "threw"
  /\ call.service.verify_ssl
  /\ call.service.https
  /\ call.sslResult.kind = "threw"
  /\ call.result.status = "down"

MinuteOfDay(t) == (t \div SecPerMin) % MinPerDay

MinuteOfWeek(t) == GetUTCDay(t) * MinPerDay + MinuteOfDay(t)

\* x lies in the window from lo to hi, which wraps around when lo > hi
InWindow(x, lo, hi) ==
  IF lo <= hi THEN lo <= x /\ x <= hi ELSE x >= lo \/ x <= hi

\* the recurrence rule of a schedule at the instant t
RuleCovers(schedule, t) ==
  LET start == NewDate(schedule.start_time)
      end == NewDate(schedule.end_time)
  IN CASE schedule.recurrence = "none" -> start <= t /\ t <= end
       [] schedule.recurrence = "daily" ->
            InWindow(MinuteOfDay(t), MinuteOfDay(start), MinuteOfDay(end))
       [] schedule.recurrence = "weekly" ->
            InWindow(MinuteOfWeek(t), MinuteOfWeek(start), MinuteOfWeek(end))

\* C25: the resolver returns a schedule only if it matches now under its
\* recurrence rule, and null exactly when no schedule matches: none matches
\* iff start <= now <= end; daily compares UTC minutes since midnight and
\* matches within [start,end], or around midnight when start > end; weekly
\* does the same with day-of-week x 1440 + minutes of the day (weekly Monday
\* 09:00-17:00 matches Monday 12:00 and not Saturday 12:00).
C25_MatchesUnderRecurrence ==
  (call.op = "getCurrentOnCall" /\ call.now # NULL)
    => LET covering == {i \in DOMAIN call.schedules :
                          RuleCovers(call.schedules[i], call.now)}
           monday == [start_time |-> ToISOString(Instant(5, 9, 0, 0)),
                      end_time |-> ToISOString(Instant(5, 17, 0, 0)),
                      recurrence |-> "weekly"]
       IN /\ call.result = NULL <=> covering = {}
          /\ call.result # NULL => call.result \in covering
          /\ call.schedules = <<monday>>
               => /\ call.now = Instant(12, 12, 0, 0) => call.result = 1
                  /\ call.now = Instant(10, 12, 0, 0) => call.result = NULL

C25_Witness ==
  /\ call.op = "getCurrentOnCall"
  /\ call.schedules = <<[start_time |-> ToISOString(Instant(5, 22, 0, 0)),
                         end_time |-> ToISOString(Instant(6, 6, 0, 0)),
                         recurrence |-> "daily"]>>
  /\ call.now = Instant(6, 3, 0, 0)
  /\ call.result = 1

\* C30: for daily and weekly recurrence the match depends only on the UTC
\* minute of the day of now (and the UTC day of the week for weekly): moving
\* now by whole days (daily) or whole weeks (weekly) never changes whether a
\* schedule matches, so a recurring schedule also matches before its start
\* timestamp and after its end timestamp.
C30_ShiftInvariant ==
  (call.op = "getCurrentOnCall" /\ call.now # NULL)
    => \A i \in DOMAIN call.schedules, t \in ResolveInstants :
         LET schedule == call.schedules[i]
             period == IF schedule.recurrence = "daily" THEN SecPerDay
                       ELSE 7 * SecPerDay
         IN (/\ schedule.recurrence \in {"daily", "weekly"}
             /\ (t - call.now) % period = 0)
              => (IsOnCall(schedule, t) <=> i \in OnCallAt(call))

C30_Witness ==
  /\ call.op = "getCurrentOnCall"
  /\ call.schedules = <<[start_time |-> ToISOString(Instant(5, 9, 0, 0)),
                         end_time |-> ToISOString(Instant(5, 17, 0, 0)),
                         recurrence |-> "daily"]>>
  /\ call.now = Instant(3, 12, 0, 0)
  /\ call.now < NewDate(call.schedules[1].start_time)
  /\ call.result = 1

\* C26: the uptime percentage of the downtime log is always within [0,100],
\* for every incident history (any number of incidents, any durations, with
\* or without an open incident) and any creation time of the target, and it
\* is 100 when the monitored time since creation is <= 0 seconds.
C26_UptimeWithinBounds ==
  (call.op = "getDowntimeLogByServiceId" /\ call.done)
    => /\ call.log.uptime_percentage >= 0
       /\ call.log.uptime_percentage <= 100 * 1000
       /\ (call.createdAt # NULL /\ (LogNow - call.createdAt) \div MsPerSec <= 0)
            => call.log.uptime_percentage = 100 * 1000

C26_Witness ==
  /\ call.op = "getDowntimeLogByServiceId"
  /\ call.done
  /\ call.createdAt = LogNow - 60 * MsPerSec
  /\ call.activeStart # NULL
  /\ call.log.total_downtime_seconds + call.log.current_downtime_seconds > 60
  /\ call.log.uptime_percentage = 0

\* C27: after any sequence of ticks for a target, ticks abandoned because a
\* Store operation failed part-way included, the stored status of the target
\* is down if and only if the target has an open incident.
C27_DownIffOpenIncident ==
  \A sid \in DOMAIN services :
    services[sid].status = "down"
      <=> (\E i \in incidents : i.service_id = sid /\ i.resolved_at = NULL)

\* C28: for every incident, the down notification attempt for that incident
\* has completed before the recovery notification for the same incident is
\* started, under any interleaving of scheduled ticks and manual checks of
\* the target.
C28_DownAlertBeforeRecoveryAlert ==
  notifier.isConfigured
    => \A id \in DOMAIN alerts :
         alerts[id].recovered # "none" => alerts[id].down # "pending"

\* C29: a scheduled tick probes its target with the configuration captured
\* when the timer of the target was created: an admin update that does not
\* include check_interval leaves the timer and its captured configuration
\* unchanged, so the scheduled ticks that follow keep using the URL, timeout
\* and alert policy from before the edit until the target is rescheduled.
C29_TickUsesCapturedConfig ==
  [][/\ (call' # call /\ call'.check_interval = Absent)
          => (timers' = timers /\ cronJobs' = cronJobs)
     /\ (phase = "running" /\ phase' = "running"
           /\ NumProbing(tasks') > NumProbing(tasks))
          => \E h \in LiveTimers :
               LET c == ProbeConfig(timers[h].service)
               IN /\ c \in DOMAIN Probing(tasks')
                  /\ Probing(tasks')[c]
                       = 1 + (IF c \in DOMAIN Probing(tasks)
                              THEN Probing(tasks)[c] ELSE 0)
                  /\ c.url = timers[h].service.url]_vars

C29_Witness ==
  /\ call # NoCall
  /\ call.check_interval = Absent
  /\ services[1].url \in EditedUrls
  /\ 1 \in DOMAIN cronJobs
  /\ timers[cronJobs[1]].service.url = SeededUrl
  /\ rowid.service_checks >= 1
  /\ \E t \in 1..MaxTasks :
       /\ tasks[t].pc = "probe"
       /\ tasks[t].service.id = 1
       /\ tasks[t].service.url = SeededUrl

====
